---- MODULE Spec2Model ----
(***************************************************************************)
(* A model of hcga's feature-extraction engine and of the asynchronous     *)
(* fluid-communities partitioner it embeds.                                *)
(*                                                                         *)
(*   - asyn_fluidc (Operations/communities_asyn_fluid.py): one action per  *)
(*     statement group of the function, one step per vertex update;        *)
(*     the random generator is a nondeterministic draw (a permutation for  *)
(*     shuffle, an index for choice).  Densities are exact fractions       *)
(*     <<numerator, denominator>>.                                         *)
(*   - extract / compute_all_features / gather_features / filter_features  *)
(*     (feature_extraction.py).                                            *)
(***************************************************************************)
EXTENDS Integers, Sequences, FiniteSets, TLC

VARIABLES
    \* ---- asyn_fluidc -------------------------------------------------
    G,                  \* the graph argument: [n, adj]; nodes are 1..n
    k,                  \* the k argument: [type, val]
    max_iter,           \* the max_iter argument
    pc,                 \* position in asyn_fluidc
    vertices,           \* the local list `vertices`
    vi,                 \* 1-based position of the for loop in `vertices`
    communities,        \* dict vertex -> community (a function on the assigned vertices)
    comkeys,            \* key insertion order of the dict `communities`
    density,            \* dict community -> <<num, den>>
    com_to_numvertices, \* dict community -> member count
    iter_count,
    cont,
    moved,              \* number of reassignments made in the current sweep (line 273)
    result,             \* the returned pair, or NoResult
    draws,              \* number of calls made to the random generator so far
    run,                \* 1: first call; 2: repeated call with the same seed
    tape,               \* outcomes drawn from the generator (kept when rec)
    rec,                \* whether the generator's outcomes are being recorded
    first,              \* result of the first call (repeated-call specification)
    \* ---- extract ------------------------------------------------------
    graphs,             \* the list of input graphs
    n_workers,
    mode,
    glob_order,         \* the order in which glob("*.py") yields the feature files
    canary_raises,      \* the classes whose run on the trivial graph raises
    pstate,             \* position in extract
    feat_classes,       \* list_feature_classes
    mapper,             \* "map" or "imap"
    next_task,          \* index of the next graph to hand to a worker
    wk,                 \* per worker: the graph it is on, the class position, all_features
    pending,            \* results completed and not yet yielded by the mapper
    completed,          \* the graphs' indices in the order their results completed
    raw_features,       \* the list being built by list(...)
    features,           \* the DataFrame built by gather_features
    features_info,
    good_features,      \* the DataFrame returned by filter_features
    ret,                \* what extract returned
    cache,              \* per worker process: the graphs held by the lru_cache of
                        \* eval_spectrum_adj (index in `graphs`; 0: the trivial graph)
    ref,                \* outcome of the pipeline run with one worker (comparison of
                        \* the worker counts)
    \* ---- AsynfluidCommunities.feature_extraction -----------------------
    is_directed,        \* nx.is_directed(G)
    fi,                 \* the loop variable i of `for i in range(2, kmax)`
    feature_list,       \* dict <<name, i>> -> value (a fraction; <<0, 0>> is NaN)
    fstate,             \* position in feature_extraction, and the error that left it
    \* ---- Spectrum.compute_features in one process -----------------------
    sp_graphs,          \* the graphs the process is handed, one pass each
    sp_task,            \* index in sp_graphs of the graph of the current pass
    sp_req,             \* position of the pass in the calls of the memoized
                        \* functions (0: no pass is running)
    lru,                \* the entries <<function, graph>> of the three lru_caches
    computed,           \* per memoized function: how often its body ran in this pass
    served,             \* how the last call was served
    \* ---- NodeFeatures.feature_extraction --------------------------------
    NG,                 \* the graph: [n, adj, feat]; node i of the code is i + 1 here
    node_degrees,
    node_matrix,
    mean_node_feat_list,
    mean_node_feat_norm,
    node_feature_list,  \* the dict feature_list of NodeFeatures.feature_extraction
    nstate              \* position in NodeFeatures.feature_extraction

fluidVars == <<G, k, max_iter, pc, vertices, vi, communities, comkeys, density,
               com_to_numvertices, iter_count, cont, moved, result, draws, run, tape,
               rec, first>>

pipeVars == <<graphs, n_workers, mode, glob_order, canary_raises, pstate,
              feat_classes, mapper, next_task, wk, pending, completed,
              raw_features, features, features_info, good_features, ret,
              cache, ref>>

featVars == <<is_directed, fi, feature_list, fstate>>

spmVars == <<sp_graphs, sp_task, sp_req, lru, computed, served>>

nodeVars == <<NG, node_degrees, node_matrix, mean_node_feat_list,
              mean_node_feat_norm, node_feature_list, nstate>>

vars == <<fluidVars, pipeVars, featVars, spmVars, nodeVars>>

----------------------------------------------------------------------------
\* Bounds of the model.
MaxIterBound == 2      \* max_iter ranges over 0..MaxIterBound

\* Program constants.
max_density == 1       \* max_density = 1.0
TolDen == 10000        \* the tolerance 0.0001 = 1 / TolDen

MaxK == 5              \* integer k ranges over -1..MaxK
MaxGraphs == 2         \* the input list holds 0..MaxGraphs graphs
MaxPasses == 2         \* a process runs 1..MaxPasses passes of Spectrum.compute_features
MaxWorkers == 2        \* n_workers ranges over 1..MaxWorkers

NoResult == [kind |-> "none"]
\* The k argument is a typed value: an int, or a float such as 2.0
IntK(i) == [type |-> "int", val |-> i]
NonInteger == [type |-> "float", val |-> 2]
KValues == {NonInteger} \cup {IntK(i) : i \in -1..MaxK}

\* isinstance(k, int)
IsInt(kk) == kk.type = "int"

----------------------------------------------------------------------------
\* Generic helpers.
Range(s) == {s[i] : i \in DOMAIN s}

Perms(n) == {p \in [1..n -> 1..n] : \A i, j \in 1..n : p[i] = p[j] => i = j}

----------------------------------------------------------------------------
\* Graphs.  adj[v] is the adjacency of v in iteration order.
MkGraph(n, adj) == [n |-> n, adj |-> adj]

K1     == MkGraph(1, <<<<>>>>)
Path2  == MkGraph(2, <<<<2>>, <<1>>>>)
Path3  == MkGraph(3, <<<<2>>, <<1, 3>>, <<2>>>>)
Tri3   == MkGraph(3, <<<<2, 3>>, <<1, 3>>, <<1, 2>>>>)
Path4  == MkGraph(4, <<<<2>>, <<1, 3>>, <<2, 4>>, <<3>>>>)
Star4  == MkGraph(4, <<<<2, 3, 4>>, <<1>>, <<1>>, <<1>>>>)
Path5  == MkGraph(5, <<<<2>>, <<1, 3>>, <<2, 4>>, <<3, 5>>, <<4>>>>)
Iso3   == MkGraph(3, <<<<>>, <<>>, <<>>>>)
Split3 == MkGraph(3, <<<<2>>, <<1>>, <<>>>>)

FluidGraphs == {K1, Path2, Path3, Tri3, Path4, Star4, Iso3, Split3}
TwinGraphs  == {Path2, Path3, Tri3, Iso3}
LiveGraphs  == {K1, Path2, Path3, Tri3, Split3}
WideGraphs  == {Path5}

\* list(G) in an order that differs from one call to the next
ListG_PerCallOrder(g) ==
    IF run = 2 THEN [i \in 1..g.n |-> g.n + 1 - i] ELSE [i \in 1..g.n |-> i]

\* list(G)
ListG(g) == [i \in 1..g.n |-> i]

\* len(G)
LenG(g) == g.n

RECURSIVE Reach(_, _)
Reach(g, seen) ==
    LET nxt == seen \cup {w \in 1..g.n : \E v \in seen : w \in Range(g.adj[v])}
    IN IF nxt = seen THEN seen ELSE Reach(g, nxt)

\* networkx is_connected(G): every node is reached from the first one
is_connected(g) == Reach(g, {1}) = 1..g.n

----------------------------------------------------------------------------
\* The random generator `seed`.  A first call draws any outcome; a repeated
\* call with the same seed reads the outcomes of the first call back from
\* the tape (the generator yields the same stream for the same seed).
PermEntry(p) == [kind |-> "perm", val |-> p]
IdxEntry(i)  == [kind |-> "idx", val |-> i]

Replaying == run = 2 /\ draws + 1 <= Len(tape)

\* outcomes of seed.shuffle on a list of length n, as permutations
ShuffleDraws(n) ==
    IF Replaying /\ tape[draws + 1].kind = "perm"
                 /\ DOMAIN tape[draws + 1].val = 1..n
    THEN {tape[draws + 1].val}
    ELSE Perms(n)

\* outcomes of seed.choice on a list of length m, as 1-based positions
ChoiceDraws(m) ==
    IF Replaying /\ tape[draws + 1].kind = "idx" /\ tape[draws + 1].val <= m
    THEN {tape[draws + 1].val}
    ELSE 1..m

Recorded(entry) == IF rec /\ run = 1 THEN Append(tape, entry) ELSE tape

\* seed.shuffle(lst) with outcome p
Shuffled(lst, p) == [i \in 1..Len(lst) |-> lst[p[i]]]

----------------------------------------------------------------------------
\* Fractions <<num, den>> with den > 0.
FracAdd(a, b) == <<a[1] * b[2] + b[1] * a[2], a[2] * b[2]>>
FracLess(a, b) == a[1] * b[2] < b[1] * a[2]

\* (max_freq - freq) < 0.0001
WithinTol(max_freq, freq) ==
    (max_freq[1] * freq[2] - freq[1] * max_freq[2]) * TolDen < max_freq[2] * freq[2]

\* the density computed from the member count as it was before the move
DensityOf_CountBeforeMove(n) == <<max_density, n + 1>>

\* max_density / n
DensityOf(n) == <<max_density, n>>

----------------------------------------------------------------------------
\* the initial checks without the comparison of k with len(G)
InitialChecks_NoSizeCheck(g, kk) ==
    IF ~IsInt(kk) THEN "k must be an integer."
    ELSE IF ~(kk.val > 0) THEN "k must be greater than 0."
    ELSE IF ~is_connected(g) THEN "Fluid Communities require connected Graphs."
    ELSE "ok"

\* asyn_fluidc: the initial checks.  The message of the error raised, or "ok".
InitialChecks(g, kk) ==
    IF ~IsInt(kk) THEN "k must be an integer."
    ELSE IF ~(kk.val > 0) THEN "k must be greater than 0."
    ELSE IF ~is_connected(g) THEN "Fluid Communities require connected Graphs."
    ELSE IF LenG(g) < kk.val THEN "k cannot be bigger than the number of nodes."
    ELSE "ok"

\* vertices[:k]
Slice(lst, kk) == SubSeq(lst, 1, IF kk < Len(lst) THEN kk ELSE Len(lst))

\* dict.update in place of Counter.update: the value replaces the count
CounterUpdate_Replace(counter, com, d) ==
    IF \E i \in DOMAIN counter : counter[i].com = com
    THEN [i \in DOMAIN counter |->
            IF counter[i].com = com THEN [com |-> com, freq |-> d] ELSE counter[i]]
    ELSE Append(counter, [com |-> com, freq |-> d])

\* Counter.update({com: d}) on a counter kept as a sequence of entries in
\* key insertion order
CounterUpdate(counter, com, d) ==
    IF \E i \in DOMAIN counter : counter[i].com = com
    THEN [i \in DOMAIN counter |->
            IF counter[i].com = com
            THEN [com |-> com, freq |-> FracAdd(counter[i].freq, d)]
            ELSE counter[i]]
    ELSE Append(counter, [com |-> com, freq |-> d])

RECURSIVE GatherNeighbours(_, _, _, _)
\* the loop over G[vertex]: neighbours without a community are skipped
GatherNeighbours(counter, nbrs, comm, dens) ==
    IF nbrs = <<>> THEN counter
    ELSE LET v == Head(nbrs)
             c2 == IF v \in DOMAIN comm
                   THEN CounterUpdate(counter, comm[v], dens[comm[v]])
                   ELSE counter
         IN GatherNeighbours(c2, Tail(nbrs), comm, dens)

\* com_counter for `vertex`: its own community first, then its neighbours'
ComCounter(g, vertex, comm, dens) ==
    LET own == IF vertex \in DOMAIN comm
               THEN CounterUpdate(<<>>, comm[vertex], dens[comm[vertex]])
               ELSE <<>>
    IN GatherNeighbours(own, g.adj[vertex], comm, dens)

\* max(com_counter.values())
MaxFreq(counter) ==
    LET i == CHOOSE i \in DOMAIN counter :
                 \A j \in DOMAIN counter : ~FracLess(counter[i].freq, counter[j].freq)
    IN counter[i].freq

RECURSIVE BestOf(_, _)
BestOf(counter, mx) ==
    IF counter = <<>> THEN <<>>
    ELSE (IF WithinTol(mx, Head(counter).freq) THEN <<Head(counter).com>> ELSE <<>>)
         \o BestOf(Tail(counter), mx)

\* best_communities, in the order of com_counter.items()
BestCommunities(counter) == BestOf(counter, MaxFreq(counter))

RECURSIVE GroupOrder(_, _, _)
\* the keys of groups(communities) in insertion order
GroupOrder(keys, comm, seen) ==
    IF keys = <<>> THEN <<>>
    ELSE IF comm[Head(keys)] \in seen THEN GroupOrder(Tail(keys), comm, seen)
         ELSE <<comm[Head(keys)]>> \o GroupOrder(Tail(keys), comm, seen \cup {comm[Head(keys)]})

\* list(iter(groups(communities).values()))
Groups(keys, comm) ==
    LET order == GroupOrder(keys, comm, {})
    IN [i \in DOMAIN order |-> {v \in DOMAIN comm : comm[v] = order[i]}]

\* list(density.values()): the dict was filled in the order 0, 1, ..., k-1
DensityValues(dens) == [i \in 1..Cardinality(DOMAIN dens) |-> dens[i - 1]]

----------------------------------------------------------------------------
\* asyn_fluidc as a state machine.

FluidInit(gs, record) ==
    /\ G \in gs
    /\ k \in KValues
    /\ max_iter \in 0..MaxIterBound
    /\ pc = "start"
    /\ vertices = <<>>
    /\ vi = 0
    /\ communities = <<>>
    /\ comkeys = <<>>
    /\ density = <<>>
    /\ com_to_numvertices = <<>>
    /\ iter_count = 0
    /\ cont = FALSE
    /\ moved = 0
    /\ result = NoResult
    /\ draws = 0
    /\ run = 1
    /\ tape = <<>>
    /\ rec = record
    /\ first = NoResult

\* lines 204-211: the initial checks raise, or the call goes on
Call ==
    /\ pc = "start"
    /\ LET e == InitialChecks(G, k)
       IN IF e = "ok"
          THEN pc' = "init" /\ result' = result
          ELSE pc' = "raised" /\ result' = [kind |-> "error", msg |-> e]
    /\ UNCHANGED <<G, k, max_iter, vertices, vi, communities, comkeys, density,
                   com_to_numvertices, iter_count, cont, moved, draws, run, tape, rec, first>>

\* lines 213-224: the seeds, their densities and the control variables
Initialization ==
    /\ pc = "init"
    /\ \E p \in ShuffleDraws(LenG(G)) :
         LET vs == Shuffled(ListG(G), p)
             seeds == Slice(vs, k.val)
         IN /\ vertices' = vs
            /\ communities' = [v \in Range(seeds) |->
                                 (CHOOSE i \in DOMAIN seeds : seeds[i] = v) - 1]
            /\ comkeys' = seeds
            /\ density' = [c \in 0..(Len(seeds) - 1) |-> <<max_density, 1>>]
            /\ com_to_numvertices' = [c \in 0..(Len(seeds) - 1) |-> 1]
            /\ tape' = Recorded(PermEntry(p))
    /\ iter_count' = 0
    /\ cont' = TRUE
    /\ moved' = 0
    /\ draws' = draws + 1
    /\ pc' = "while"
    /\ UNCHANGED <<G, k, max_iter, vi, result, run, rec, first>>

\* lines 225-230: `while cont:` entered; a new sweep in a fresh random order
BeginSweep ==
    /\ pc = "while"
    /\ cont
    /\ cont' = FALSE
    /\ moved' = 0
    /\ iter_count' = iter_count + 1
    /\ \E p \in ShuffleDraws(LenG(G)) :
         /\ vertices' = Shuffled(ListG(G), p)
         /\ tape' = Recorded(PermEntry(p))
    /\ draws' = draws + 1
    /\ vi' = 1
    /\ pc' = "for"
    /\ UNCHANGED <<G, k, max_iter, communities, comkeys, density,
                   com_to_numvertices, result, run, rec, first>>

\* line 225: `while cont:` left because the last sweep changed nothing
ExitLoop ==
    /\ pc = "while"
    /\ ~cont
    /\ pc' = "return"
    /\ UNCHANGED <<G, k, max_iter, vertices, vi, communities, comkeys, density,
                   com_to_numvertices, iter_count, cont, moved, result, draws, run, tape,
                   rec, first>>

\* the vertex keeps its community only when no other community ties with it
Preserved_OnlyWithoutTie(vertex, comm, best) ==
    vertex \in DOMAIN comm /\ best = <<comm[vertex]>>

\* the vertex never keeps its community: a new one is always drawn
Preserved_Never(vertex, comm, best) == FALSE

\* a vertex that has a community keeps it, candidate or not
Preserved_IfAssigned(vertex, comm, best) == vertex \in DOMAIN comm

\* lines 253-258: the vertex keeps its community
Preserved(vertex, comm, best) ==
    vertex \in DOMAIN comm /\ comm[vertex] \in Range(best)

\* lines 231-276: the update of one vertex
UpdateVertex ==
    /\ pc = "for"
    /\ vi <= Len(vertices)
    /\ LET vertex == vertices[vi]
           com_counter == ComCounter(G, vertex, communities, density)
       IN IF com_counter = <<>>
          THEN /\ vi' = vi + 1
               /\ UNCHANGED <<communities, comkeys, density, com_to_numvertices,
                              cont, moved, draws, tape, pc, result>>
          ELSE LET best_communities == BestCommunities(com_counter)
               IN IF Preserved(vertex, communities, best_communities)
                  THEN /\ vi' = vi + 1
                       /\ UNCHANGED <<communities, comkeys, density,
                                      com_to_numvertices, cont, moved, draws, tape, pc, result>>
                  ELSE \E d \in ChoiceDraws(Len(best_communities)) :
                         LET new_com == best_communities[d]
                             had == vertex \in DOMAIN communities
                             old == communities[vertex]
                             num1 == IF had
                                     THEN [com_to_numvertices EXCEPT ![old] = @ - 1]
                                     ELSE com_to_numvertices
                         IN /\ cont' = TRUE
                            /\ draws' = draws + 1
                            /\ tape' = Recorded(IdxEntry(d))
                            /\ IF had /\ num1[old] = 0
                               THEN \* max_density / 0: ZeroDivisionError
                                    /\ com_to_numvertices' = num1
                                    /\ pc' = "raised"
                                    /\ result' = [kind |-> "error", msg |-> "ZeroDivisionError"]
                                    /\ UNCHANGED <<communities, comkeys, density, vi, moved>>
                               ELSE LET den1 == IF had
                                                THEN [density EXCEPT ![old] = DensityOf(num1[old])]
                                                ELSE density
                                        num2 == [num1 EXCEPT ![new_com] = @ + 1]
                                    IN /\ communities' =
                                            [v \in DOMAIN communities \cup {vertex} |->
                                                IF v = vertex THEN new_com ELSE communities[v]]
                                       /\ comkeys' = IF had THEN comkeys ELSE Append(comkeys, vertex)
                                       /\ com_to_numvertices' = num2
                                       /\ density' = [den1 EXCEPT ![new_com] = DensityOf(num2[new_com])]
                                       /\ vi' = vi + 1
                                       /\ moved' = moved + 1
                                       /\ UNCHANGED <<pc, result>>
    /\ UNCHANGED <<G, k, max_iter, vertices, iter_count, run, rec, first>>

\* lines 277-279: the sweep is over; break when the sweep limit is exceeded
EndSweep ==
    /\ pc = "for"
    /\ vi > Len(vertices)
    /\ pc' = IF iter_count > max_iter THEN "return" ELSE "while"
    /\ UNCHANGED <<G, k, max_iter, vertices, vi, communities, comkeys, density,
                   com_to_numvertices, iter_count, cont, moved, result, draws, run, tape,
                   rec, first>>

\* lines 280-281
Return ==
    /\ pc = "return"
    /\ result' = [kind |-> "return",
                  groups |-> Groups(comkeys, communities),
                  densities |-> DensityValues(density)]
    /\ pc' = "done"
    /\ UNCHANGED <<G, k, max_iter, vertices, vi, communities, comkeys, density,
                   com_to_numvertices, iter_count, cont, moved, draws, run, tape, rec, first>>

\* the caller calls asyn_fluidc again on the same graph with the same k,
\* max_iter and seed
CallAgain ==
    /\ pc \in {"done", "raised"}
    /\ rec
    /\ run = 1
    /\ first' = result
    /\ run' = 2
    /\ pc' = "start"
    /\ vertices' = <<>>
    /\ vi' = 0
    /\ communities' = <<>>
    /\ comkeys' = <<>>
    /\ density' = <<>>
    /\ com_to_numvertices' = <<>>
    /\ iter_count' = 0
    /\ cont' = FALSE
    /\ moved' = 0
    /\ result' = NoResult
    /\ draws' = 0
    /\ UNCHANGED <<G, k, max_iter, tape, rec>>

----------------------------------------------------------------------------
\* Feature values: a finite number, NaN, +inf or -inf.
Num(i) == [t |-> "num", v |-> i]
NaN    == [t |-> "nan", v |-> 0]
PosInf == [t |-> "inf", v |-> 1]
NegInf == [t |-> "inf", v |-> -1]
\* the outcome of a feature function that raises
Raises == [t |-> "raise", v |-> 0]

IsNaN(x) == x.t = "nan"
IsFinite(x) == x.t = "num"

\* An empty dict.
EmptyDict == <<>>

\* d with d[key] = val
DictSet(d, key, val) == [x \in DOMAIN d \cup {key} |-> IF x = key THEN val ELSE d[x]]

----------------------------------------------------------------------------
\* The feature classes of hcga/features.
FeatureFiles == {"node_clique_number", "spectrum"}

\* featureclass_name of each module
featureclass_name(file) ==
    IF file = "node_clique_number" THEN "NodeCliqueNumber" ELSE "Spectrum"

\* the class attribute `modes`
modes(cls) ==
    IF cls = "NodeCliqueNumber" THEN {"fast", "medium", "slow"} ELSE {"medium", "slow"}

\* the class attribute `shortname`
shortname(cls) == IF cls = "NodeCliqueNumber" THEN "CN" ELSE "SPM"

\* The names a class passes to add_feature.  NodeCliqueNumber adds
\* "clique sizes" (its statistics expansion is kept as one scalar); of the
\* features Spectrum adds, the model keeps eigenvalue_ratio_1_0.
FeatureNames(cls) ==
    IF cls = "NodeCliqueNumber" THEN {"clique sizes"} ELSE {"eigenvalue_ratio_1_0"}

\* FeatureClass.add_feature(name, fn, ...) on an instance whose state is
\* inst: fn is evaluated on the graph (fn_result is what it returns, or
\* Raises) and the value is recorded under the name; a failure of fn is not
\* handled here.
add_feature(inst, name, fn_result) ==
    IF inst.raised \/ fn_result = Raises
    THEN [raised |-> TRUE, features |-> inst.features]
    ELSE [raised |-> FALSE, features |-> DictSet(inst.features, name, fn_result)]

RECURSIVE AddFeatures(_, _, _, _)
\* the add_feature calls of compute_features, one per name
AddFeatures(inst, cls, g, names) ==
    IF names = {} THEN inst
    ELSE LET name == CHOOSE f \in names : TRUE
         IN AddFeatures(add_feature(inst, name, g.out[cls][name]), cls, g, names \ {name})

\* compute_features on graph g: g.out[cls][f] is what the function of
\* feature f returns on g, or Raises
compute_features(cls, g) ==
    AddFeatures([raised |-> FALSE, features |-> EmptyDict], cls, g, FeatureNames(cls))

\* FeatureClass.update_features(all_features): runs compute_features and
\* stores the features under the class's shortname; a failure of
\* compute_features is not handled here.
update_features(cls, g, all_features) ==
    LET r == compute_features(cls, g)
    IN IF r.raised
       THEN [raised |-> TRUE, all_features |-> all_features]
       ELSE [raised |-> FALSE,
             all_features |-> DictSet(all_features, shortname(cls), r.features)]

\* FeatureClass.get_feature_info(feature)
get_feature_info(cls, feature) ==
    [feature_name |-> <<shortname(cls), feature>>, feature_class |-> shortname(cls)]

RECURSIVE SelectClasses_DeclaredOnly(_, _)
\* the selection without the test for the mode "all"
SelectClasses_DeclaredOnly(files, m) ==
    IF files = <<>> THEN <<>>
    ELSE LET feature_class == featureclass_name(Head(files))
         IN (IF m \in modes(feature_class) THEN <<feature_class>> ELSE <<>>)
            \o SelectClasses_DeclaredOnly(Tail(files), m)

RECURSIVE SelectClasses(_, _)
\* lines 40-45: the classes kept for a mode, in the order of the glob
SelectClasses(files, m) ==
    IF files = <<>> THEN <<>>
    ELSE LET feature_class == featureclass_name(Head(files))
         IN (IF m \in modes(feature_class) \/ m = "all"
             THEN <<feature_class>> ELSE <<>>)
            \o SelectClasses(Tail(files), m)

RECURSIVE feature_extraction(_, _, _)
\* lines 67-80: feature_extraction(graph, list_feature_classes), started from
\* the dict all_features
feature_extraction(g, classes, all_features) ==
    IF classes = <<>> THEN [raised |-> FALSE, all_features |-> all_features]
    ELSE LET r == update_features(Head(classes), g, all_features)
         IN IF r.raised THEN r
            ELSE feature_extraction(g, Tail(classes), r.all_features)

----------------------------------------------------------------------------
\* DataFrames: index is the number of rows, data maps a column name to the
\* list of its values.
DataFrame(n, data) == [index |-> n, data |-> data]
EmptyFrame == DataFrame(0, EmptyDict)

\* pd.DataFrame.from_dict(d) for a dict of equally long lists
from_dict(d) ==
    IF DOMAIN d = {} THEN EmptyFrame
    ELSE DataFrame(Len(d[CHOOSE c \in DOMAIN d : TRUE]), d)

\* lines 104-115: the lookups that raise IndexError or KeyError
gather_raises(all_features_raw, list_feature_classes) ==
    \E ci \in DOMAIN list_feature_classes :
        LET sn == shortname(list_feature_classes[ci])
        IN \/ all_features_raw = <<>>
           \/ sn \notin DOMAIN all_features_raw[1]
           \/ \E feature \in DOMAIN all_features_raw[1][sn] :
                \E i \in DOMAIN all_features_raw :
                    \/ sn \notin DOMAIN all_features_raw[i]
                    \/ feature \notin DOMAIN all_features_raw[i][sn]

\* the columns are the names found in any bundle, a missing cell being NaN
gather_features_AllBundles(all_features_raw, list_feature_classes) ==
    LET cols == {<<cls, feature>> \in
                    Range(list_feature_classes) \X
                    (UNION {DOMAIN all_features_raw[x[1]][x[2]] :
                               x \in {y \in (DOMAIN all_features_raw) \X {"CN", "SPM"} :
                                         y[2] \in DOMAIN all_features_raw[y[1]]}}) :
                    \E i \in DOMAIN all_features_raw :
                        /\ shortname(cls) \in DOMAIN all_features_raw[i]
                        /\ feature \in DOMAIN all_features_raw[i][shortname(cls)]}
        all_features ==
            [col \in {get_feature_info(c[1], c[2]).feature_name : c \in cols} |->
                LET c == CHOOSE c \in cols : get_feature_info(c[1], c[2]).feature_name = col
                IN [i \in DOMAIN all_features_raw |->
                       IF /\ shortname(c[1]) \in DOMAIN all_features_raw[i]
                          /\ c[2] \in DOMAIN all_features_raw[i][shortname(c[1])]
                       THEN all_features_raw[i][shortname(c[1])][c[2]]
                       ELSE NaN]]
        info ==
            [col \in DOMAIN all_features |->
                LET c == CHOOSE c \in cols : get_feature_info(c[1], c[2]).feature_name = col
                IN get_feature_info(c[1], c[2])]
    IN [features |-> from_dict(all_features), features_info |-> info]

\* lines 98-117: gather_features when no lookup raises
gather_features(all_features_raw, list_feature_classes) ==
    LET cols == {<<cls, feature>> \in
                    Range(list_feature_classes) \X
                    (UNION {DOMAIN all_features_raw[1][shortname(c)] :
                               c \in Range(list_feature_classes)}) :
                    feature \in DOMAIN all_features_raw[1][shortname(cls)]}
        all_features ==
            [col \in {get_feature_info(c[1], c[2]).feature_name : c \in cols} |->
                LET c == CHOOSE c \in cols : get_feature_info(c[1], c[2]).feature_name = col
                IN [i \in DOMAIN all_features_raw |->
                       all_features_raw[i][shortname(c[1])][c[2]]]]
        info ==
            [col \in DOMAIN all_features |->
                LET c == CHOOSE c \in cols : get_feature_info(c[1], c[2]).feature_name = col
                IN get_feature_info(c[1], c[2])]
    IN [features |-> from_dict(all_features), features_info |-> info]

\* features.replace([np.inf, -np.inf], np.nan): a new frame
replace_inf(df) ==
    DataFrame(df.index,
              [c \in DOMAIN df.data |->
                  [i \in DOMAIN df.data[c] |->
                      IF df.data[c][i].t = "inf" THEN NaN ELSE df.data[c][i]]])

\* df.dropna(axis=1): the columns without a NaN
dropna(df) ==
    DataFrame(df.index,
              [c \in {c \in DOMAIN df.data : \A i \in DOMAIN df.data[c] : ~IsNaN(df.data[c][i])}
                  |-> df.data[c]])

RECURSIVE SumSeq(_)
SumSeq(xs) == IF xs = <<>> THEN 0 ELSE Head(xs) + SumSeq(Tail(xs))

\* Series.std() of one column (ddof = 1), scaled by n * sqrt(n * (n - 1)) and
\* squared: NaN with fewer than two rows or with an infinite value, else
\* sum((n * x_i - sum(x))^2), which is 0 exactly when std is 0
std(col) ==
    LET n == Len(col)
    IN IF n < 2 \/ \E i \in DOMAIN col : ~IsFinite(col[i]) THEN NaN
       ELSE LET total == SumSeq([i \in DOMAIN col |-> col[i].v])
            IN Num(SumSeq([i \in DOMAIN col |->
                              (n * col[i].v - total) * (n * col[i].v - total)]))

\* df.drop(labels, axis=1)
drop(df, labels) ==
    DataFrame(df.index, [c \in DOMAIN df.data \ labels |-> df.data[c]])

\* lines 120-130: filter_features.  The frame returned by replace is not
\* kept: dropna works on `features` itself.
filter_features(df) ==
    LET replaced == replace_inf(df)
        valid_features == dropna(df)
    IN drop(valid_features,
            {c \in DOMAIN valid_features.data : std(valid_features.data[c]) = Num(0)})

----------------------------------------------------------------------------
\* The input graphs of extract.  A graph is known by what each feature
\* function returns on it (out[class][feature]: a value, or Raises).
GraphOut(cn, spm) ==
    [NodeCliqueNumber |-> [f \in FeatureNames("NodeCliqueNumber") |-> cn],
     Spectrum |-> [f \in FeatureNames("Spectrum") |-> spm]]

InputGraphs ==
    { [id |-> "cycle", out |-> GraphOut(Num(1), Num(2))],
      [id |-> "complete", out |-> GraphOut(Num(2), PosInf)],
      [id |-> "star", out |-> GraphOut(Num(1), NaN)],
      [id |-> "disconnected", out |-> GraphOut(Num(1), Raises)],
      [id |-> "directed", out |-> GraphOut(Raises, Num(1))] }

GraphLists == UNION {[1..n -> InputGraphs] : n \in 0..MaxGraphs}

Modes == {"fast", "medium", "slow", "all", "none"}

GlobOrders == {<<"node_clique_number", "spectrum">>, <<"spectrum", "node_clique_number">>}

NoRef == [kind |-> "none"]

IdleWorker == [task |-> 0, pos |-> 0, all_features |-> EmptyDict]

ExtractInit ==
    /\ graphs \in GraphLists
    /\ n_workers \in 1..MaxWorkers
    /\ mode \in Modes
    /\ glob_order \in GlobOrders
    /\ canary_raises \in {{}, {"Spectrum"}}
    /\ pstate = "boot"
    /\ feat_classes = <<>>
    /\ mapper = "none"
    /\ next_task = 1
    /\ wk = [w \in 1..n_workers |-> IdleWorker]
    /\ pending = EmptyDict
    /\ completed = <<>>
    /\ raw_features = <<>>
    /\ features = EmptyFrame
    /\ features_info = EmptyDict
    /\ good_features = EmptyFrame
    /\ ret = [kind |-> "none"]
    /\ cache = [w \in 1..n_workers |-> {}]
    /\ ref = NoRef

\* the lru_cache of eval_spectrum_adj after the features of the classes were
\* computed on the graph with key `key`: Spectrum's features call
\* eval_spectrum_adj(graph), and the cache keeps what it returned (returned
\* tells whether it returned); nothing removes an entry
CacheAfter(entries, classes, key, returned) ==
    IF "Spectrum" \in Range(classes) /\ returned THEN entries \cup {key} ELSE entries

\* the run on the trivial graph is left out
CanaryRaises_NotRun(classes, raising) == FALSE

\* line 47: feature_class(trivial_graph).update_features({}) for each class
\* appended to the list; raising is the set of classes whose run raises
CanaryRaises(classes, raising) == \E c \in Range(classes) : c \in raising

\* lines 32-48 (called at line 16): the classes of the mode are collected and
\* each is run once on the trivial graph; an error of that run propagates
get_list_feature_classes ==
    /\ pstate = "boot"
    /\ LET list_feature_classes == SelectClasses(glob_order, mode)
       IN IF CanaryRaises(list_feature_classes, canary_raises)
          THEN /\ pstate' = "raised"
               /\ ret' = [kind |-> "error", in |-> "get_list_feature_classes"]
               /\ UNCHANGED feat_classes
          ELSE /\ pstate' = "compute"
               /\ feat_classes' = list_feature_classes
               /\ UNCHANGED ret
    /\ cache' = [w \in DOMAIN cache |->
                    CacheAfter(cache[w], SelectClasses(glob_order, mode), 0,
                               ~CanaryRaises(SelectClasses(glob_order, mode), canary_raises))]
    /\ UNCHANGED <<ref, graphs, n_workers, mode, glob_order, canary_raises, mapper,
                   next_task, wk, pending, completed, raw_features, features, features_info,
                   good_features>>

\* lines 85-93: the worker and the mapper are set up
StartCompute ==
    /\ pstate = "compute"
    /\ mapper = "none"
    /\ mapper' = IF n_workers = 1 THEN "map" ELSE "imap"
    /\ UNCHANGED <<cache, ref, graphs, n_workers, mode, glob_order, canary_raises, pstate,
                   feat_classes, next_task, wk, pending, completed, raw_features, features,
                   features_info, good_features, ret>>

\* the workers that run graphs: map runs them in the calling process (one at
\* a time, when list() asks for the next item); the pool has n_workers
Workers == IF mapper = "map" THEN {1} ELSE 1..n_workers

\* a worker is handed the next graph: Worker.__call__(graph), line 67
TakeTask(w) ==
    /\ pstate = "compute"
    /\ mapper # "none"
    /\ w \in Workers
    /\ wk[w].task = 0
    /\ next_task <= Len(graphs)
    /\ mapper = "map" => next_task = Len(raw_features) + 1
    /\ wk' = [wk EXCEPT ![w] = [task |-> next_task, pos |-> 1, all_features |-> EmptyDict]]
    /\ next_task' = next_task + 1
    /\ UNCHANGED <<cache, ref, graphs, n_workers, mode, glob_order, canary_raises, pstate,
                   feat_classes, mapper, pending, completed, raw_features, features,
                   features_info, good_features, ret>>

\* lines 68-76: one turn of the loop over the feature classes; an error of
\* update_features ends the call of the worker with that error
RunClass(w) ==
    /\ pstate = "compute"
    /\ w \in Workers
    /\ wk[w].task # 0
    /\ wk[w].pos <= Len(feat_classes)
    /\ LET r == update_features(feat_classes[wk[w].pos], graphs[wk[w].task],
                                wk[w].all_features)
       IN IF r.raised
          THEN /\ pending' = DictSet(pending, wk[w].task, [raised |-> TRUE, value |-> EmptyDict])
               /\ completed' = Append(completed, wk[w].task)
               /\ wk' = [wk EXCEPT ![w] = IdleWorker]
          ELSE /\ wk' = [wk EXCEPT ![w].pos = @ + 1, ![w].all_features = r.all_features]
               /\ UNCHANGED <<pending, completed>>
    /\ cache' = [cache EXCEPT ![w] =
                    CacheAfter(@, <<feat_classes[wk[w].pos]>>, wk[w].task,
                               ~update_features(feat_classes[wk[w].pos],
                                                graphs[wk[w].task],
                                                wk[w].all_features).raised)]
    /\ UNCHANGED <<ref, graphs, n_workers, mode, glob_order, canary_raises, pstate,
                   feat_classes, mapper, next_task, raw_features, features,
                   features_info, good_features, ret>>

\* line 80: feature_extraction returns all_features
FinishTask(w) ==
    /\ pstate = "compute"
    /\ w \in Workers
    /\ wk[w].task # 0
    /\ wk[w].pos > Len(feat_classes)
    /\ pending' = DictSet(pending, wk[w].task,
                          [raised |-> FALSE, value |-> wk[w].all_features])
    /\ completed' = Append(completed, wk[w].task)
    /\ wk' = [wk EXCEPT ![w] = IdleWorker]
    /\ UNCHANGED <<cache, ref, graphs, n_workers, mode, glob_order, canary_raises, pstate,
                   feat_classes, mapper, next_task, raw_features, features,
                   features_info, good_features, ret>>

\* a mapper that yields results as they complete (imap_unordered)
Yieldable_Unordered(done, n_yielded) == done

\* the indices whose result the mapper can yield next: map and imap yield in
\* the order of the input
Yieldable(done, n_yielded) == {n_yielded + 1} \cap done

\* line 95: list() takes the next item of the mapper; an error raised in the
\* worker is raised again here and leaves compute_all_features and extract
Yield ==
    /\ pstate = "compute"
    /\ \E i \in Yieldable(DOMAIN pending, Len(raw_features)) :
         /\ pending' = [j \in DOMAIN pending \ {i} |-> pending[j]]
         /\ IF pending[i].raised
            THEN /\ pstate' = "raised"
                 /\ ret' = [kind |-> "error", in |-> "compute_all_features"]
                 /\ UNCHANGED raw_features
            ELSE /\ raw_features' = Append(raw_features, pending[i].value)
                 /\ UNCHANGED <<pstate, ret>>
    /\ UNCHANGED <<cache, ref, graphs, n_workers, mode, glob_order, canary_raises,
                   feat_classes, mapper, next_task, wk, completed, features,
                   features_info, good_features>>

\* line 95: the mapper is exhausted, compute_all_features returns the list
ComputeDone ==
    /\ pstate = "compute"
    /\ mapper # "none"
    /\ Len(raw_features) = Len(graphs)
    /\ pstate' = "gather"
    /\ UNCHANGED <<cache, ref, graphs, n_workers, mode, glob_order, canary_raises,
                   feat_classes, mapper, next_task, wk, pending, completed, raw_features,
                   features, features_info, good_features, ret>>

\* line 18: gather_features(raw_features, feat_classes)
Gather ==
    /\ pstate = "gather"
    /\ IF gather_raises(raw_features, feat_classes)
       THEN /\ pstate' = "raised"
            /\ ret' = [kind |-> "error", in |-> "gather_features"]
            /\ UNCHANGED <<features, features_info>>
       ELSE LET r == gather_features(raw_features, feat_classes)
            IN /\ features' = r.features
               /\ features_info' = r.features_info
               /\ pstate' = "filter"
               /\ UNCHANGED ret
    /\ UNCHANGED <<cache, ref, graphs, n_workers, mode, glob_order, canary_raises,
                   feat_classes, mapper, next_task, wk, pending, completed, raw_features,
                   good_features>>

\* lines 20-21: good_features = filter_features(features)
Filter ==
    /\ pstate = "filter"
    /\ good_features' = filter_features(features)
    /\ pstate' = "return"
    /\ UNCHANGED <<cache, ref, graphs, n_workers, mode, glob_order, canary_raises,
                   feat_classes, mapper, next_task, wk, pending, completed, raw_features,
                   features, features_info, ret>>

\* line 23: return features, features_info
ExtractReturn ==
    /\ pstate = "return"
    /\ ret' = [kind |-> "return", features |-> features, features_info |-> features_info]
    /\ pstate' = "returned"
    /\ UNCHANGED <<cache, ref, graphs, n_workers, mode, glob_order, canary_raises,
                   feat_classes, mapper, next_task, wk, pending, completed, raw_features,
                   features, features_info, good_features>>

\* the caller, having run compute_all_features and gather_features with
\* n_workers = 1 (lines 17-18), runs them again in the same process on the
\* same graphs and the same list of classes with a pool of n workers; the
\* pool's processes start as copies of the calling process
ComputeAgain ==
    /\ ref = NoRef
    /\ n_workers = 1
    /\ pstate \in {"filter", "raised"}
    /\ pstate = "raised" => ret.in # "get_list_feature_classes"
    /\ ref' = [kind |-> IF pstate = "raised" THEN "error" ELSE "return",
               in |-> IF pstate = "raised" THEN ret.in ELSE "",
               features |-> features,
               features_info |-> features_info]
    /\ \E n \in 2..MaxWorkers :
         /\ n_workers' = n
         /\ wk' = [w \in 1..n |-> IdleWorker]
         /\ cache' = [w \in 1..n |-> cache[1]]
    /\ pstate' = "compute"
    /\ mapper' = "none"
    /\ next_task' = 1
    /\ pending' = EmptyDict
    /\ completed' = <<>>
    /\ raw_features' = <<>>
    /\ features' = EmptyFrame
    /\ features_info' = EmptyDict
    /\ ret' = [kind |-> "none"]
    /\ UNCHANGED <<graphs, mode, glob_order, canary_raises, feat_classes, good_features>>

----------------------------------------------------------------------------
\* gather_features and filter_features on their own: any list of bundles.
BundleValues == {Num(1), Num(2), NaN, PosInf, NegInf}

\* the dicts a class may have stored in a bundle
ClassDicts(cls) ==
    UNION {[names -> BundleValues] : names \in SUBSET FeatureNames(cls)}

ClassNames == {featureclass_name(f) : f \in FeatureFiles}

\* the bundles: each class's shortname is absent, or maps to a dict
Bundles ==
    UNION { {[sn \in {shortname(c) : c \in present} |->
                 picks[CHOOSE c \in present : shortname(c) = sn]] :
             picks \in {p \in [present -> UNION {ClassDicts(c) : c \in present}] :
                          \A c \in present : p[c] \in ClassDicts(c)}}
            : present \in SUBSET ClassNames }

ClassLists ==
    {<<>>} \cup {<<c>> : c \in ClassNames}
           \cup {<<c, d>> : <<c, d>> \in {x \in ClassNames \X ClassNames : x[1] # x[2]}}

AggInit ==
    /\ raw_features \in UNION {[1..n -> Bundles] : n \in 0..MaxGraphs}
    /\ feat_classes \in ClassLists
    /\ pstate = "gather"
    /\ graphs = <<>>
    /\ n_workers = 1
    /\ mode = "none"
    /\ glob_order = <<>>
    /\ canary_raises = {}
    /\ mapper = "none"
    /\ next_task = 1
    /\ wk = <<>>
    /\ pending = EmptyDict
    /\ completed = <<>>
    /\ features = EmptyFrame
    /\ features_info = EmptyDict
    /\ good_features = EmptyFrame
    /\ ret = [kind |-> "none"]
    /\ cache = <<>>
    /\ ref = NoRef

PipeIdle ==
    /\ graphs = <<>>
    /\ n_workers = 1
    /\ mode = "none"
    /\ glob_order = <<>>
    /\ canary_raises = {}
    /\ pstate = "idle"
    /\ feat_classes = <<>>
    /\ mapper = "none"
    /\ next_task = 1
    /\ wk = <<>>
    /\ pending = EmptyDict
    /\ completed = <<>>
    /\ raw_features = <<>>
    /\ features = EmptyFrame
    /\ features_info = EmptyDict
    /\ good_features = EmptyFrame
    /\ ret = [kind |-> "none"]
    /\ cache = <<>>
    /\ ref = NoRef

FluidIdle ==
    /\ G = K1
    /\ k = IntK(1)
    /\ max_iter = 0
    /\ pc = "idle"
    /\ vertices = <<>>
    /\ vi = 0
    /\ communities = <<>>
    /\ comkeys = <<>>
    /\ density = <<>>
    /\ com_to_numvertices = <<>>
    /\ iter_count = 0
    /\ cont = FALSE
    /\ moved = 0
    /\ result = NoResult
    /\ draws = 0
    /\ run = 1
    /\ tape = <<>>
    /\ rec = FALSE
    /\ first = NoResult

FeatIdle ==
    /\ is_directed = FALSE
    /\ fi = 0
    /\ feature_list = EmptyDict
    /\ fstate = [at |-> "idle", err |-> ""]

SpmIdle ==
    /\ sp_graphs = <<>>
    /\ sp_task = 0
    /\ sp_req = 0
    /\ lru = {}
    /\ computed = <<>>
    /\ served = "none"

NodeIdle ==
    /\ NG = [n |-> 0, adj |-> <<>>, feat |-> <<>>]
    /\ node_degrees = <<>>
    /\ node_matrix = <<>>
    /\ mean_node_feat_list = <<>>
    /\ mean_node_feat_norm = <<>>
    /\ node_feature_list = EmptyDict
    /\ nstate = "idle"

----------------------------------------------------------------------------
\* AsynfluidCommunities.feature_extraction.

kmax == 10             \* kmax = 10
DefaultMaxIter == 100  \* asyn_fluidc(G, k, max_iter=100, seed=None)

\* the graphs given to the feature module
FeatGraphs == {K1, Path2, Path3, Tri3, Split3, Path4, Star4}

qual_names ==
    {"mod", "coverage", "performance", "inter_comm_edge", "inter_comm_nedge",
     "intra_comm_edge"}

\* feature values are fractions; np.nan is <<0, 0>>
FracNaN == <<0, 0>>
IntVal(n) == <<n, 1>>
FracDiv(a, b) == <<a[1] * b[2], a[2] * b[1]>>

\* d.update(e)
DictUpdate(d, e) ==
    [x \in DOMAIN d \cup DOMAIN e |-> IF x \in DOMAIN e THEN e[x] ELSE d[x]]

RECURSIVE SumDensity(_)
\* sum(density)
SumDensity(dens) ==
    IF dens = <<>> THEN <<0, 1>> ELSE FracAdd(Head(dens), SumDensity(Tail(dens)))

\* np.argmax(density) and np.argmin(density), as 1-based positions: the first
\* position of a largest (smallest) value
ArgMax(dens) ==
    CHOOSE i \in DOMAIN dens :
        /\ \A j \in DOMAIN dens : ~FracLess(dens[i], dens[j])
        /\ \A j \in 1..(i - 1) : FracLess(dens[j], dens[i])

ArgMin(dens) ==
    CHOOSE i \in DOMAIN dens :
        /\ \A j \in DOMAIN dens : ~FracLess(dens[j], dens[i])
        /\ \A j \in 1..(i - 1) : FracLess(dens[i], dens[j])

\* clustering_quality(G, c) of hcga/Operations/utils.py: the names it returns
\* are those of line 85; its values are left uninterpreted
QualityValue == <<1, 1>>
clustering_quality(g, c) == [name \in qual_names |-> QualityValue]

\* lines 96-121: the features of one community count i, from the groups c and
\* the densities returned by asyn_fluidc; an index past the end of c raises
\* IndexError and leaves the features stored so far
StoreFeatures(fl, i, c, dens) ==
    LET s1 == DictUpdate(fl,
                 (<<"total_density", i>> :> SumDensity(dens)) @@
                 (<<"ratio_density", i>> :>
                      FracDiv(dens[ArgMin(dens)], dens[ArgMax(dens)])))
        s2 == DictUpdate(s1,
                 <<"most_dense", i>> :> IntVal(Cardinality(c[ArgMax(dens)])))
        s3 == DictUpdate(s2,
                 <<"least_dense", i>> :> IntVal(Cardinality(c[ArgMin(dens)])))
        qual_vals == clustering_quality(G, c)
        s4 == DictUpdate(s3, [key \in {<<name, i>> : name \in qual_names} |->
                                 qual_vals[key[1]]])
        s5 == DictUpdate(s4,
                 <<"num_nodes_ratio", i>> :>
                     FracDiv(IntVal(Cardinality(c[1])), IntVal(Cardinality(c[2]))))
    IN IF ArgMax(dens) > Len(c) THEN [raised |-> TRUE, feature_list |-> s1]
       ELSE IF ArgMin(dens) > Len(c) THEN [raised |-> TRUE, feature_list |-> s2]
       ELSE IF Len(c) < 2 THEN [raised |-> TRUE, feature_list |-> s4]
       ELSE [raised |-> FALSE, feature_list |-> s5]

\* lines 127-136: every feature is np.nan
NaNFeatures ==
    [key \in ({"total_density", "ratio_density", "most_dense", "least_dense",
               "num_nodes_ratio"} \cup qual_names) \X (2..(kmax - 1)) |-> FracNaN]

At(place) == [at |-> place, err |-> ""]

FeatInit ==
    /\ G \in FeatGraphs
    /\ is_directed \in BOOLEAN
    /\ fi = 2
    /\ feature_list = EmptyDict
    /\ fstate = At("start")
    /\ k = IntK(1)
    /\ max_iter = 0
    /\ pc = "idle"
    /\ vertices = <<>>
    /\ vi = 0
    /\ communities = <<>>
    /\ comkeys = <<>>
    /\ density = <<>>
    /\ com_to_numvertices = <<>>
    /\ iter_count = 0
    /\ cont = FALSE
    /\ moved = 0
    /\ result = NoResult
    /\ draws = 0
    /\ run = 1
    /\ tape = <<>>
    /\ rec = FALSE
    /\ first = NoResult

\* lines 76-87 and 123-136: the branch on nx.is_directed(G)
FeatBranch ==
    /\ fstate = At("start")
    /\ IF is_directed
       THEN /\ feature_list' = NaNFeatures
            /\ fi' = kmax
            /\ fstate' = At("loop")
       ELSE /\ fstate' = At("loop")
            /\ UNCHANGED <<feature_list, fi>>
    /\ UNCHANGED <<is_directed, fluidVars>>

\* lines 88-94: asyn_fluidc is called with i, or with len(G) when i > len(G)
FeatCall ==
    /\ fstate = At("loop")
    /\ fi < kmax
    /\ k' = IntK(IF fi > LenG(G) THEN LenG(G) ELSE fi)
    /\ max_iter' = DefaultMaxIter
    /\ pc' = "start"
    /\ vertices' = <<>>
    /\ vi' = 0
    /\ communities' = <<>>
    /\ comkeys' = <<>>
    /\ density' = <<>>
    /\ com_to_numvertices' = <<>>
    /\ iter_count' = 0
    /\ cont' = FALSE
    /\ moved' = 0
    /\ result' = NoResult
    /\ draws' = 0
    /\ fstate' = At("call")
    /\ UNCHANGED <<G, run, tape, rec, first, is_directed, fi, feature_list>>

\* lines 96-121: asyn_fluidc returned; the features of i are stored
FeatStore ==
    /\ fstate = At("call")
    /\ pc = "done"
    /\ LET r == StoreFeatures(feature_list, fi, result.groups, result.densities)
       IN /\ feature_list' = r.feature_list
          /\ IF r.raised
             THEN fstate' = [at |-> "raised", err |-> "IndexError"] /\ fi' = fi
             ELSE fstate' = At("loop") /\ fi' = fi + 1
    /\ UNCHANGED <<is_directed, fluidVars>>

\* lines 92-94: the error raised by asyn_fluidc leaves feature_extraction
FeatPropagate ==
    /\ fstate = At("call")
    /\ pc = "raised"
    /\ fstate' = [at |-> "raised", err |-> result.msg]
    /\ UNCHANGED <<is_directed, fi, feature_list, fluidVars>>

\* line 144: self.features = feature_list
FeatFinish ==
    /\ fstate = At("loop")
    /\ fi = kmax
    /\ fstate' = At("done")
    /\ UNCHANGED <<is_directed, fi, feature_list, fluidVars>>

----------------------------------------------------------------------------
\* Spectrum.compute_features and the three memoized functions of spectrum.py,
\* in one process.  A pass is one call of compute_features on one graph; a
\* process runs one pass after the other (the run on the trivial graph and
\* the graphs of a sequential run, or the tasks a pool worker is handed).

\* line 55
n_eigs == 10

\* the functions under @lru_cache(maxsize=None)
SpmFns == {"eval_spectrum_adj", "eval_spectrum_modularity", "eval_spectrum_laplacian"}

\* lines 56-57: the number of pairs (i, j) with j < i < n_eigs
NumPairs == (n_eigs * (n_eigs - 1)) \div 2

\* lines 56-57: the i of the p-th pair (i, j), p = 1..NumPairs
RatioI(p) == CHOOSE i \in 1..(n_eigs - 1) :
                 (i * (i - 1)) \div 2 < p /\ p <= (i * (i + 1)) \div 2

\* lines 56-57: the j of the p-th pair
RatioJ(p) == p - (RatioI(p) * (RatioI(p) - 1)) \div 2 - 1

\* the calls of the memoized functions one pass makes
NumRequests == 1 + 2 * NumPairs + 2

\* lines 46-80 with line 20: the r-th call of a memoized function in a pass:
\* the feature that makes it, the function called and the index read from
\* what it returns (-1: the whole array is used)
Request(r) ==
    IF r = 1
    THEN [feature |-> "eigenvalues_adjacency", i |-> -1, j |-> -1,
          fn |-> "eval_spectrum_adj", idx |-> -1]
    ELSE IF r <= 1 + 2 * NumPairs
    THEN [feature |-> "eigenvalue_ratio", i |-> RatioI(r \div 2), j |-> RatioJ(r \div 2),
          fn |-> "eval_spectrum_adj",
          idx |-> IF r % 2 = 0 THEN RatioJ(r \div 2) ELSE RatioI(r \div 2)]
    ELSE IF r = 2 + 2 * NumPairs
    THEN [feature |-> "eigenvalues_modularity", i |-> -1, j |-> -1,
          fn |-> "eval_spectrum_modularity", idx |-> -1]
    ELSE [feature |-> "eigenvalues_laplacian", i |-> -1, j |-> -1,
          fn |-> "eval_spectrum_laplacian", idx |-> -1]

\* a cache that keeps nothing
LruStore_Nothing(entries, fn, key) == entries

\* lru_cache(maxsize=None): what the body returned is kept under the key
LruStore(entries, fn, key) == entries \cup {<<fn, key>>}

\* a call fn(graph) through the lru_cache: a hit returns the entry; a miss
\* runs the body, and keeps what it returns unless it raises
lru_call(entries, fn, g) ==
    IF <<fn, g.id>> \in entries
    THEN [entries |-> entries, ran |-> 0, how |-> "cached"]
    ELSE IF fn \in g.raises
    THEN [entries |-> entries, ran |-> 1, how |-> "raised"]
    ELSE [entries |-> LruStore(entries, fn, g.id), ran |-> 1, how |-> "computed"]

\* the graph objects a process may be handed: id is the object (the key of
\* the caches), size its number of nodes (and of eigenvalues), raises the
\* functions that raise on it
SpmGraphs ==
    [id : 1..MaxPasses, size : {3, n_eigs},
     raises : {{}, {"eval_spectrum_adj"}, {"eval_spectrum_laplacian"}}]

\* the lists of graphs of a process: one object has one size and one outcome
SpmGraphLists ==
    {gs \in UNION {[1..n -> SpmGraphs] : n \in 1..MaxPasses} :
        \A a, b \in DOMAIN gs : gs[a].id = gs[b].id => gs[a] = gs[b]}

SpmInit ==
    /\ sp_graphs \in SpmGraphLists
    /\ sp_task = 0
    /\ sp_req = 0
    /\ lru = {}
    /\ computed = [f \in SpmFns |-> 0]
    /\ served = "none"

\* feature_extraction line 72-73: a pass starts on the next graph
SpmBegin ==
    /\ sp_req = 0
    /\ sp_task < Len(sp_graphs)
    /\ sp_task' = sp_task + 1
    /\ sp_req' = 1
    /\ computed' = [f \in SpmFns |-> 0]
    /\ served' = "none"
    /\ UNCHANGED <<sp_graphs, lru>>

\* one call of a memoized function by a feature function (lines 13-32), and
\* the index read from its result at line 20; add_feature does not handle an
\* exception of the body or of the index, which ends the pass
SpmRequest ==
    /\ sp_req \in 1..NumRequests
    /\ LET g == sp_graphs[sp_task]
           rq == Request(sp_req)
           c == lru_call(lru, rq.fn, g)
           outcome == IF c.how = "raised" THEN "raised"
                      ELSE IF rq.idx >= g.size THEN "IndexError"
                      ELSE c.how
           \* the add_feature call the feature function runs in
           inst == add_feature([raised |-> FALSE, features |-> EmptyDict], rq.feature,
                               IF outcome \in {"raised", "IndexError"}
                               THEN Raises ELSE Num(0))
       IN /\ lru' = c.entries
          /\ computed' = [computed EXCEPT ![rq.fn] = @ + c.ran]
          /\ served' = outcome
          /\ sp_req' = IF inst.raised THEN 0 ELSE sp_req + 1
    /\ UNCHANGED <<sp_graphs, sp_task>>

\* compute_features returns
SpmReturn ==
    /\ sp_req = NumRequests + 1
    /\ sp_req' = 0
    /\ served' = "none"
    /\ UNCHANGED <<sp_graphs, sp_task, lru, computed>>

----------------------------------------------------------------------------
\* NodeFeatures.feature_extraction.  Node i of the code (labels 0..N-1) is
\* node i + 1 here, and position i of a Python list is position i + 1.  The
\* statistics (np.mean, np.max, ...) and the fits of hcga.Operations.utils
\* are not interpreted: a name holds Computed or NaN, and a fit returns or
\* raises.

\* a feature value that was computed
Computed == [t |-> "computed", v |-> 0]

\* the lengths of `bins` (line 27) is 1: each fit loop runs once, with 10
DegStatNames == {"deg_mean", "deg_max", "deg_min", "deg_median", "deg_std", "deg_sum"}
DegFitNames == <<"deg_opt_model_10", "deg_powerlaw_a_10", "deg_powerlaw_SSE_10">>

\* lines 60-65 and 73-76
MatrixStatNames ==
    {"mean", "max", "min", "median", "std", "sum",
     "feat_mean_max", "feat_mean_min", "feat_mean_median", "feat_mean_std"}
\* lines 81-83
FeatFitNames == <<"feat_opt_model_10", "feat_powerlaw_a_10", "feat_powerlaw_SSE_10">>
\* lines 89-92
NodeMeanStatNames ==
    {"node_mean_max", "node_mean_min", "node_mean_median", "node_mean_std"}
\* lines 97-99
NodeFitNames == <<"node_opt_model_10", "node_powerlaw_a_10", "node_powerlaw_SSE_10">>
\* lines 105-110
NormStatNames ==
    {"norm_mean", "norm_max", "norm_min", "norm_median", "norm_std", "norm_sum"}
\* lines 115-117
NormFitNames == <<"norm_opt_model_10", "norm_powerlaw_a_10", "norm_powerlaw_SSE_10">>

\* lines 121-157: the names the except branch sets to NaN
ExceptNames ==
    {"mean", "max", "min", "median", "std", "sum",
     "feat_mean_max", "feat_mean_min", "feat_mean_median", "feat_mean_std",
     "feat_opt_model_10", "feat_powerlaw_a_10", "feat_powerlaw_SSE_10",
     "node_mean_max", "node_mean_min", "node_mean_median", "node_mean_std",
     "node_opt_model_10", "node_powerlaw_a_10", "node_powerlaw_SSE_10",
     "norm_mean", "norm_max", "norm_min", "norm_median", "norm_std",
     "norm_opt_model_10", "norm_powerlaw_a_10", "norm_powerlaw_SSE_10"}

\* the feature vectors a node may carry
FeatVectors == {<<1>>, <<3>>, <<1, 3>>}

\* the graphs: NG.feat maps the nodes that have the attribute 'feat' to it
NodeGraphs ==
    UNION {{[n |-> g.n, adj |-> g.adj, feat |-> f] :
               f \in UNION {[S -> FeatVectors] : S \in SUBSET (1..g.n)}} :
           g \in {K1, Path2, Path3, Split3}}

\* np.mean of one row, as a fraction
RowMean(row) == <<SumSeq(row), Len(row)>>

\* a - b on fractions
FracSub(a, b) == <<a[1] * b[2] - b[1] * a[2], a[2] * b[2]>>

\* a loop `for i in range(len(bins))` of three assignments, of which the
\* first `written` were made (3: the fits returned)
FitStep(fl, names, written) ==
    DictUpdate(fl, [nm \in {names[i] : i \in 1..written} |-> Computed])

NodeInit ==
    /\ NG \in NodeGraphs
    /\ node_degrees = <<>>
    /\ node_matrix = <<>>
    /\ mean_node_feat_list = <<>>
    /\ mean_node_feat_norm = <<>>
    /\ node_feature_list = EmptyDict
    /\ nstate = "start"

\* lines 31-42: the degrees and their statistics
NodeDegrees ==
    /\ nstate = "start"
    /\ node_degrees' = [i \in 1..NG.n |-> Len(NG.adj[i])]
    /\ node_feature_list' =
           DictUpdate(node_feature_list, [nm \in DegStatNames |-> Computed])
    /\ nstate' = "deg_fit"
    /\ UNCHANGED <<NG, node_matrix, mean_node_feat_list, mean_node_feat_norm>>

\* lines 45-49: the fits of the degrees, outside the try block: an exception
\* leaves feature_extraction
NodeDegFit ==
    /\ nstate = "deg_fit"
    /\ \E written \in 0..3 :
         /\ node_feature_list' = FitStep(node_feature_list, DegFitNames, written)
         /\ nstate' = IF written = 3 THEN "try" ELSE "raised"
    /\ UNCHANGED <<NG, node_degrees, node_matrix, mean_node_feat_list,
                   mean_node_feat_norm>>

\* lines 55-57: the matrix starts with the row of node 0, then one row is
\* stacked for each node; a node without 'feat' raises KeyError, rows of
\* different lengths raise ValueError
NodeMatrix ==
    /\ nstate = "try"
    /\ IF /\ \A i \in 1..NG.n : i \in DOMAIN NG.feat
          /\ \A i \in 1..NG.n : Len(NG.feat[i]) = Len(NG.feat[1])
       THEN /\ node_matrix' = <<NG.feat[1]>> \o [i \in 1..NG.n |-> NG.feat[i]]
            /\ nstate' = "matrix"
       ELSE /\ nstate' = "except"
            /\ UNCHANGED node_matrix
    /\ UNCHANGED <<NG, node_degrees, mean_node_feat_list, mean_node_feat_norm,
                   node_feature_list>>

\* lines 60-76: the statistics of the matrix and of the feature means
NodeMatrixStats ==
    /\ nstate = "matrix"
    /\ node_feature_list' =
           DictUpdate(node_feature_list, [nm \in MatrixStatNames |-> Computed])
    /\ nstate' = "feat_fit"
    /\ UNCHANGED <<NG, node_degrees, node_matrix, mean_node_feat_list,
                   mean_node_feat_norm>>

\* the fit loops inside the try block (lines 79-83, 95-99, 113-117): an
\* exception goes to the except branch
NodeFit(at, names, next) ==
    /\ nstate = at
    /\ \E written \in 0..3 :
         /\ node_feature_list' = FitStep(node_feature_list, names, written)
         /\ nstate' = IF written = 3 THEN next ELSE "except"
    /\ UNCHANGED <<NG, node_degrees, node_matrix, mean_node_feat_list,
                   mean_node_feat_norm>>

\* lines 86-92: the mean of each row of the matrix
NodeMeans ==
    /\ nstate = "node_means"
    /\ mean_node_feat_list' = [i \in 1..Len(node_matrix) |-> RowMean(node_matrix[i])]
    /\ node_feature_list' =
           DictUpdate(node_feature_list, [nm \in NodeMeanStatNames |-> Computed])
    /\ nstate' = "node_fit"
    /\ UNCHANGED <<NG, node_degrees, node_matrix, mean_node_feat_norm>>

\* lines 102-110: the means minus the degrees, position by position
NodeNorm ==
    /\ nstate = "norm"
    /\ mean_node_feat_norm' =
           [i \in 1..NG.n |-> FracSub(mean_node_feat_list[i], IntVal(node_degrees[i]))]
    /\ node_feature_list' =
           DictUpdate(node_feature_list, [nm \in NormStatNames |-> Computed])
    /\ nstate' = "norm_fit"
    /\ UNCHANGED <<NG, node_degrees, node_matrix, mean_node_feat_list>>

\* lines 119-157: the except branch
NodeExcept ==
    /\ nstate = "except"
    /\ node_feature_list' = DictUpdate(node_feature_list, [nm \in ExceptNames |-> NaN])
    /\ nstate' = "store"
    /\ UNCHANGED <<NG, node_degrees, node_matrix, mean_node_feat_list,
                   mean_node_feat_norm>>

\* line 160: self.features = feature_list
NodeStore ==
    /\ nstate = "store"
    /\ nstate' = "done"
    /\ UNCHANGED <<NG, node_degrees, node_matrix, mean_node_feat_list,
                   mean_node_feat_norm, node_feature_list>>

----------------------------------------------------------------------------
\* Specifications.

\* NodeFeatures(G).feature_extraction()
InitNode == NodeInit /\ FluidIdle /\ PipeIdle /\ FeatIdle /\ SpmIdle
NextNode ==
    \/ NodeDegrees /\ UNCHANGED <<fluidVars, pipeVars, featVars, spmVars>>
    \/ NodeDegFit /\ UNCHANGED <<fluidVars, pipeVars, featVars, spmVars>>
    \/ NodeMatrix /\ UNCHANGED <<fluidVars, pipeVars, featVars, spmVars>>
    \/ NodeMatrixStats /\ UNCHANGED <<fluidVars, pipeVars, featVars, spmVars>>
    \/ NodeFit("feat_fit", FeatFitNames, "node_means")
         /\ UNCHANGED <<fluidVars, pipeVars, featVars, spmVars>>
    \/ NodeMeans /\ UNCHANGED <<fluidVars, pipeVars, featVars, spmVars>>
    \/ NodeFit("node_fit", NodeFitNames, "norm")
         /\ UNCHANGED <<fluidVars, pipeVars, featVars, spmVars>>
    \/ NodeNorm /\ UNCHANGED <<fluidVars, pipeVars, featVars, spmVars>>
    \/ NodeFit("norm_fit", NormFitNames, "store")
         /\ UNCHANGED <<fluidVars, pipeVars, featVars, spmVars>>
    \/ NodeExcept /\ UNCHANGED <<fluidVars, pipeVars, featVars, spmVars>>
    \/ NodeStore /\ UNCHANGED <<fluidVars, pipeVars, featVars, spmVars>>
SpecNode == InitNode /\ [][NextNode]_vars

\* the passes of Spectrum.compute_features in one process
InitSpm == SpmInit /\ FluidIdle /\ PipeIdle /\ FeatIdle /\ NodeIdle
NextSpm ==
    \/ SpmBegin /\ UNCHANGED <<fluidVars, pipeVars, featVars, nodeVars>>
    \/ SpmRequest /\ UNCHANGED <<fluidVars, pipeVars, featVars, nodeVars>>
    \/ SpmReturn /\ UNCHANGED <<fluidVars, pipeVars, featVars, nodeVars>>
SpecSpm == InitSpm /\ [][NextSpm]_vars

\* AsynfluidCommunities(G).feature_extraction()
InitFeat == FeatInit /\ PipeIdle /\ SpmIdle /\ NodeIdle
NextFeat ==
    \/ FeatBranch /\ UNCHANGED <<pipeVars, spmVars, nodeVars>>
    \/ FeatCall /\ UNCHANGED <<pipeVars, spmVars, nodeVars>>
    \/ Call /\ UNCHANGED <<pipeVars, featVars, spmVars, nodeVars>>
    \/ Initialization /\ UNCHANGED <<pipeVars, featVars, spmVars, nodeVars>>
    \/ BeginSweep /\ UNCHANGED <<pipeVars, featVars, spmVars, nodeVars>>
    \/ ExitLoop /\ UNCHANGED <<pipeVars, featVars, spmVars, nodeVars>>
    \/ UpdateVertex /\ UNCHANGED <<pipeVars, featVars, spmVars, nodeVars>>
    \/ EndSweep /\ UNCHANGED <<pipeVars, featVars, spmVars, nodeVars>>
    \/ Return /\ UNCHANGED <<pipeVars, featVars, spmVars, nodeVars>>
    \/ FeatStore /\ UNCHANGED <<pipeVars, spmVars, nodeVars>>
    \/ FeatPropagate /\ UNCHANGED <<pipeVars, spmVars, nodeVars>>
    \/ FeatFinish /\ UNCHANGED <<pipeVars, spmVars, nodeVars>>
SpecFeat == InitFeat /\ [][NextFeat]_vars

\* one call of asyn_fluidc
InitFluid == FluidInit(FluidGraphs, FALSE) /\ PipeIdle /\ FeatIdle /\ SpmIdle /\ NodeIdle
NextFluid ==
    \/ Call /\ UNCHANGED <<pipeVars, featVars, spmVars, nodeVars>>
    \/ Initialization /\ UNCHANGED <<pipeVars, featVars, spmVars, nodeVars>>
    \/ BeginSweep /\ UNCHANGED <<pipeVars, featVars, spmVars, nodeVars>>
    \/ ExitLoop /\ UNCHANGED <<pipeVars, featVars, spmVars, nodeVars>>
    \/ UpdateVertex /\ UNCHANGED <<pipeVars, featVars, spmVars, nodeVars>>
    \/ EndSweep /\ UNCHANGED <<pipeVars, featVars, spmVars, nodeVars>>
    \/ Return /\ UNCHANGED <<pipeVars, featVars, spmVars, nodeVars>>
SpecFluid == InitFluid /\ [][NextFluid]_vars

\* one call of asyn_fluidc that is not suspended: the function is sequential
\* code, so a step that can be taken is taken
InitFluidLive == FluidInit(LiveGraphs, FALSE) /\ PipeIdle /\ FeatIdle /\ SpmIdle /\ NodeIdle
SpecFluidLive == InitFluidLive /\ [][NextFluid]_vars /\ WF_vars(NextFluid)

\* one call of asyn_fluidc on a graph of five nodes, for two or five
\* communities and max_iter = 1
InitFluidWide ==
    /\ FluidInit(WideGraphs, FALSE)
    /\ k \in {IntK(2), IntK(5)}
    /\ max_iter = 1
    /\ PipeIdle
    /\ FeatIdle
    /\ SpmIdle
    /\ NodeIdle
SpecFluidWide == InitFluidWide /\ [][NextFluid]_vars

\* two calls of asyn_fluidc with the same arguments and the same seed
InitTwin == FluidInit(TwinGraphs, TRUE) /\ PipeIdle /\ FeatIdle /\ SpmIdle /\ NodeIdle
NextTwin ==
    \/ Call /\ UNCHANGED <<pipeVars, featVars, spmVars, nodeVars>>
    \/ Initialization /\ UNCHANGED <<pipeVars, featVars, spmVars, nodeVars>>
    \/ BeginSweep /\ UNCHANGED <<pipeVars, featVars, spmVars, nodeVars>>
    \/ ExitLoop /\ UNCHANGED <<pipeVars, featVars, spmVars, nodeVars>>
    \/ UpdateVertex /\ UNCHANGED <<pipeVars, featVars, spmVars, nodeVars>>
    \/ EndSweep /\ UNCHANGED <<pipeVars, featVars, spmVars, nodeVars>>
    \/ Return /\ UNCHANGED <<pipeVars, featVars, spmVars, nodeVars>>
    \/ CallAgain /\ UNCHANGED <<pipeVars, featVars, spmVars, nodeVars>>
SpecTwin == InitTwin /\ [][NextTwin]_vars

\* one call of extract
InitPipe == ExtractInit /\ FluidIdle /\ FeatIdle /\ SpmIdle /\ NodeIdle
NextPipe ==
    \/ get_list_feature_classes /\ UNCHANGED <<fluidVars, featVars, spmVars, nodeVars>>
    \/ StartCompute /\ UNCHANGED <<fluidVars, featVars, spmVars, nodeVars>>
    \/ \E w \in 1..MaxWorkers : TakeTask(w) /\ UNCHANGED <<fluidVars, featVars, spmVars, nodeVars>>
    \/ \E w \in 1..MaxWorkers : RunClass(w) /\ UNCHANGED <<fluidVars, featVars, spmVars, nodeVars>>
    \/ \E w \in 1..MaxWorkers : FinishTask(w) /\ UNCHANGED <<fluidVars, featVars, spmVars, nodeVars>>
    \/ Yield /\ UNCHANGED <<fluidVars, featVars, spmVars, nodeVars>>
    \/ ComputeDone /\ UNCHANGED <<fluidVars, featVars, spmVars, nodeVars>>
    \/ Gather /\ UNCHANGED <<fluidVars, featVars, spmVars, nodeVars>>
    \/ Filter /\ UNCHANGED <<fluidVars, featVars, spmVars, nodeVars>>
    \/ ExtractReturn /\ UNCHANGED <<fluidVars, featVars, spmVars, nodeVars>>
SpecPipe == InitPipe /\ [][NextPipe]_vars

\* compute_all_features and gather_features run with one worker, then again
\* with a pool
InitPar == ExtractInit /\ n_workers = 1 /\ FluidIdle /\ FeatIdle /\ SpmIdle /\ NodeIdle
NextPar ==
    \/ get_list_feature_classes /\ UNCHANGED <<fluidVars, featVars, spmVars, nodeVars>>
    \/ StartCompute /\ UNCHANGED <<fluidVars, featVars, spmVars, nodeVars>>
    \/ \E w \in 1..MaxWorkers : TakeTask(w) /\ UNCHANGED <<fluidVars, featVars, spmVars, nodeVars>>
    \/ \E w \in 1..MaxWorkers : RunClass(w) /\ UNCHANGED <<fluidVars, featVars, spmVars, nodeVars>>
    \/ \E w \in 1..MaxWorkers : FinishTask(w) /\ UNCHANGED <<fluidVars, featVars, spmVars, nodeVars>>
    \/ Yield /\ UNCHANGED <<fluidVars, featVars, spmVars, nodeVars>>
    \/ ComputeDone /\ UNCHANGED <<fluidVars, featVars, spmVars, nodeVars>>
    \/ Gather /\ UNCHANGED <<fluidVars, featVars, spmVars, nodeVars>>
    \/ ComputeAgain /\ UNCHANGED <<fluidVars, featVars, spmVars, nodeVars>>
SpecPar == InitPar /\ [][NextPar]_vars

\* gather_features followed by filter_features on any list of bundles
InitAgg == AggInit /\ FluidIdle /\ FeatIdle /\ SpmIdle /\ NodeIdle
NextAgg ==
    \/ Gather /\ UNCHANGED <<fluidVars, featVars, spmVars, nodeVars>>
    \/ Filter /\ UNCHANGED <<fluidVars, featVars, spmVars, nodeVars>>
SpecAgg == InitAgg /\ [][NextAgg]_vars

----------------------------------------------------------------------------
\* Properties of asyn_fluidc.

Returned == pc = "done" /\ result.kind = "return"

GroupsPartition(groups, nodes) ==
    /\ \A i, j \in DOMAIN groups : i # j => groups[i] \cap groups[j] = {}
    /\ UNION Range(groups) = nodes

\* C1: whenever asyn_fluidc returns (by convergence or because the sweep
\* limit was exceeded), the returned groups are pairwise disjoint and their
\* union is the node set of G.
C1_GroupsPartitionNodes ==
    Returned => GroupsPartition(result.groups, 1..LenG(G))

\* The convergence case alone: a call whose last sweep changed nothing
\* returns a partition of the node set.
C1_ConvergedGroupsPartitionNodes ==
    (Returned /\ ~cont) => GroupsPartition(result.groups, 1..LenG(G))

PreconditionMessages ==
    {"k must be an integer.", "k must be greater than 0.",
     "Fluid Communities require connected Graphs.",
     "k cannot be bigger than the number of nodes."}

PreconditionViolated ==
    \/ ~IsInt(k)
    \/ k.val <= 0
    \/ Reach(G, {1}) # 1..G.n
    \/ k.val > G.n

\* C9: when k is not an integer, k <= 0, the graph is not connected or k
\* exceeds the number of nodes, the call raises with no seed chosen, no
\* random number drawn, no sweep run and no partition returned; otherwise no
\* precondition error is raised.
C9_PreconditionsFailFast ==
    pc # "start" =>
        IF PreconditionViolated
        THEN /\ pc = "raised"
             /\ result.kind = "error"
             /\ result.msg \in PreconditionMessages
             /\ draws = 0
             /\ comkeys = <<>>
             /\ communities = <<>>
             /\ iter_count = 0
        ELSE ~(result.kind = "error" /\ result.msg \in PreconditionMessages)

C9_Witness ==
    /\ pc = "raised"
    /\ IsInt(k) /\ k.val > 0
    /\ is_connected(G)
    /\ LenG(G) < k.val
    /\ result.kind = "error"

----------------------------------------------------------------------------
\* Properties of extract, compute_all_features, gather_features and
\* filter_features.

\* compute_all_features has returned its list
ComputeReturned == pstate \in {"gather", "filter", "return", "returned"}

\* gather_features has returned
GatherReturned == pstate \in {"filter", "return", "returned"}

\* C2: when a class's feature computation raises on a graph, no exception
\* leaves compute_all_features, and the bundle of that graph holds NaN under
\* every feature name of that class.
C2_FailureIsolated ==
    /\ ~(pstate = "raised" /\ ret.in = "compute_all_features")
    /\ ComputeReturned =>
         /\ Len(raw_features) = Len(graphs)
         /\ \A i \in DOMAIN graphs : \A c \in Range(feat_classes) :
              compute_features(c, graphs[i]).raised =>
                 /\ shortname(c) \in DOMAIN raw_features[i]
                 /\ \A f \in FeatureNames(c) :
                      /\ f \in DOMAIN raw_features[i][shortname(c)]
                      /\ IsNaN(raw_features[i][shortname(c)][f])

\* C3: the list built by compute_all_features holds, at position i, the
\* bundle of the i-th input graph, whatever the number of workers and the
\* order in which the workers finish.
C3_BundlesInInputOrder ==
    /\ \A i \in DOMAIN raw_features :
         raw_features[i] = feature_extraction(graphs[i], feat_classes, EmptyDict).all_features
    /\ ComputeReturned => Len(raw_features) = Len(graphs)

C3_Witness ==
    /\ ComputeReturned
    /\ n_workers = 2
    /\ completed = <<2, 1>>
    /\ Len(raw_features) = 2
    /\ raw_features[1] # raw_features[2]
    /\ raw_features[1] = feature_extraction(graphs[1], feat_classes, EmptyDict).all_features

NonFiniteColumn(col) == \E i \in DOMAIN col : ~IsFinite(col[i])

ConstantColumn(col) == \A i, j \in DOMAIN col : col[i] = col[j]

\* C4: the matrix extract returns is the output of filter_features on the
\* matrix of gather_features: every column of the returned matrix survived
\* the filter.
C4_ExtractReturnsFiltered ==
    pstate = "returned" =>
        /\ DOMAIN ret.features.data \subseteq DOMAIN good_features.data
        /\ ret.features = good_features

\* C5: filter_features removes every column that holds a NaN, a +inf or a
\* -inf in some row.
C5_NonFiniteColumnsRemoved ==
    (pstate = "return") =>
        \A c \in DOMAIN features.data :
            NonFiniteColumn(features.data[c]) => c \notin DOMAIN good_features.data

\* C6: for a matrix of one row or more (exactly one row included),
\* filter_features removes every column whose values are the same in every
\* row.  Stated for the columns of finite values: the columns with a
\* non-finite value are the subject of C5.
C6_ConstantColumnsRemoved ==
    (pstate = "return" /\ features.index >= 1) =>
        \A c \in DOMAIN features.data :
            (ConstantColumn(features.data[c]) /\ ~NonFiniteColumn(features.data[c]))
                => c \notin DOMAIN good_features.data

\* C7: for a non-empty list of graphs, the matrix gather_features builds from
\* the bundles of compute_all_features has one row per input graph, whatever
\* the active classes.
C7_RowCountIsGraphCount ==
    (GatherReturned /\ Len(graphs) >= 1) => features.index = Len(graphs)

\* the first bundle holds feature f under shortname sn
FirstBundleHas(sn, f) ==
    /\ raw_features # <<>>
    /\ sn \in DOMAIN raw_features[1]
    /\ f \in DOMAIN raw_features[1][sn]

\* the cells (class, feature, row) of the first bundle's columns that a later
\* bundle has no value for
MissingCells ==
    {cell \in Range(feat_classes) \X
              (UNION {FeatureNames(c) : c \in ClassNames}) \X (DOMAIN raw_features \ {1}) :
        LET sn == shortname(cell[1])
        IN /\ FirstBundleHas(sn, cell[2])
           /\ \/ sn \notin DOMAIN raw_features[cell[3]]
              \/ cell[2] \notin DOMAIN raw_features[cell[3]][sn]}

\* C8: when a later graph's bundle lacks a feature name (or a class
\* shortname) that the first bundle has, gather_features returns normally
\* and the cell holds NaN.
C8_SchemaMismatchFilledWithNaN ==
    (pstate # "gather" /\ raw_features # <<>>
       /\ (\A c \in Range(feat_classes) : shortname(c) \in DOMAIN raw_features[1])
       /\ MissingCells # {}) =>
        /\ pstate # "raised"
        /\ \A cell \in MissingCells :
             /\ get_feature_info(cell[1], cell[2]).feature_name \in DOMAIN features.data
             /\ IsNaN(features.data[get_feature_info(cell[1], cell[2]).feature_name][cell[3]])

----------------------------------------------------------------------------
\* Further properties of asyn_fluidc.

\* the vertices currently assigned to community c
Members(c) == {v \in DOMAIN communities : communities[v] = c}

\* the seeds are in place (lines 216-221 have run) and no error was raised
Seeded == pc \in {"while", "for", "return", "done"}

\* C11: after initialization and after every single vertex update, for every
\* community c, com_to_numvertices[c] is the number of vertices currently
\* assigned to c and density[c] is 1 / that number; the densities handed out
\* at the return are those values.
C11_DensityTimesCountIsOne ==
    Seeded =>
        /\ DOMAIN density = DOMAIN com_to_numvertices
        /\ \A c \in DOMAIN density :
             /\ com_to_numvertices[c] = Cardinality(Members(c))
             /\ density[c][1] * com_to_numvertices[c] = density[c][2]
        /\ Returned =>
             \A i \in DOMAIN result.densities :
                 result.densities[i][1] * Cardinality(Members(i - 1))
                     = result.densities[i][2]

\* a seed vertex has left its first community in the middle of a sweep, and
\* some community has several members
C11_Witness ==
    /\ pc = "for"
    /\ vi <= Len(vertices)
    /\ \E i \in DOMAIN comkeys : i <= k.val /\ communities[comkeys[i]] # i - 1
    /\ \E c \in DOMAIN density : com_to_numvertices[c] >= 2 /\ density[c] = <<1, 2>>

\* the two terminal states of a call that passed the initial checks
Converged == Returned /\ ~cont
MaxIterExceeded == Returned /\ iter_count > max_iter

\* C12: a call that passed the initial checks eventually returns a result,
\* either after a sweep without any reassignment or after the sweep limit
\* was exceeded; it does not end by raising.
C12_EventuallyReturns ==
    (pc = "init") ~> (Converged \/ MaxIterExceeded)

\* a call returned at the sweep limit while vertices were still moving, after
\* more than one sweep
C12_Witness ==
    /\ Returned
    /\ cont
    /\ max_iter >= 1
    /\ iter_count = max_iter + 1

\* C18: max_iter is the largest number of sweeps a call performs: a call
\* that returns has completed at most max_iter sweeps over the vertices.
\* Stated for max_iter >= 1.
C18_AtMostMaxIterSweeps ==
    (Returned /\ max_iter >= 1) => iter_count <= max_iter

\* C19: the two lists asyn_fluidc returns are aligned by position: they have
\* the same length and, for every position i, densities[i] is the density of
\* the community whose members are groups[i], that is
\* densities[i] * len(groups[i]) = 1.  Stated for the calls whose last sweep
\* changed nothing.
C19_GroupsAndDensitiesAligned ==
    (Returned /\ ~cont) =>
        /\ Len(result.groups) = Len(result.densities)
        /\ \A i \in DOMAIN result.groups :
             result.densities[i][1] * Cardinality(result.groups[i])
                 = result.densities[i][2]

\* C20: no community becomes empty: after initialization and after every
\* vertex update each of the k communities has at least one member, the
\* density update never divides by zero, and the call returns exactly k
\* densities and exactly k groups.
C20_NoCommunityEmpties ==
    /\ ~(pc = "raised" /\ result.msg = "ZeroDivisionError")
    /\ Seeded =>
         /\ DOMAIN density = 0..(k.val - 1)
         /\ \A c \in 0..(k.val - 1) :
              Members(c) # {} /\ com_to_numvertices[c] >= 1
    /\ Returned =>
         /\ Len(result.densities) = k.val
         /\ Len(result.groups) = k.val
         /\ \A i \in DOMAIN result.groups : result.groups[i] # {}

\* the vertex just visited is the only member of its community, another
\* community tied with it for the maximum, and the vertex kept its community
C20_Witness ==
    /\ pc = "for"
    /\ vi > 1
    /\ vertices[vi - 1] \in DOMAIN communities
    /\ Cardinality(Members(communities[vertices[vi - 1]])) = 1
    /\ Len(BestCommunities(ComCounter(G, vertices[vi - 1], communities, density))) >= 2

\* the number of votes community c gets at vertex v: one for v itself when v
\* is in c, one per neighbour of v in c
VoteCount(v, c) ==
    (IF v \in DOMAIN communities /\ communities[v] = c THEN 1 ELSE 0)
    + Cardinality({i \in DOMAIN G.adj[v] :
                      /\ G.adj[v][i] \in DOMAIN communities
                      /\ communities[G.adj[v][i]] = c})

\* the vote of community c at vertex v: its density, once per vote
Vote(v, c) == <<density[c][1] * VoteCount(v, c), density[c][2]>>

\* the communities that get a vote at v
Voted(v) == {c \in DOMAIN density : VoteCount(v, c) > 0}

\* the communities whose vote at v is within 0.0001 of the largest vote
CandidateSet(v) ==
    {c \in Voted(v) :
        \A d \in Voted(v) :
            (Vote(v, d)[1] * Vote(v, c)[2] - Vote(v, c)[1] * Vote(v, d)[2]) * 10000
                < Vote(v, d)[2] * Vote(v, c)[2]}

\* C21: in every vertex update the vote of a community is its density summed
\* once for the vertex itself and once per neighbour in it, and the
\* candidates are the communities within 0.0001 of the largest vote; a vertex
\* whose community is a candidate is not reassigned and does not mark the
\* sweep as changed; a vertex that is reassigned moves to a candidate.
C21_UpdateFollowsCandidates ==
    [][(pc = "for" /\ vi <= Len(vertices)) =>
         /\ (Voted(vertices[vi]) = {}
               \/ (vertices[vi] \in DOMAIN communities
                     /\ communities[vertices[vi]] \in CandidateSet(vertices[vi])))
              => (communities' = communities /\ cont' = cont /\ density' = density)
         /\ (/\ vertices[vi] \in DOMAIN communities'
             /\ \/ vertices[vi] \notin DOMAIN communities
                \/ communities'[vertices[vi]] # communities[vertices[vi]])
              => (communities'[vertices[vi]] \in CandidateSet(vertices[vi]) /\ cont')
         /\ \A v \in DOMAIN communities \ {vertices[vi]} :
              v \in DOMAIN communities' /\ communities'[v] = communities[v]]_vars

\* a vertex update is about to reassign a vertex that has a community: its
\* community is not a candidate
C21_Witness ==
    /\ pc = "for"
    /\ vi > 1
    /\ vi <= Len(vertices)
    /\ vertices[vi] \in DOMAIN communities
    /\ communities[vertices[vi]] \notin CandidateSet(vertices[vi])
    /\ CandidateSet(vertices[vi]) # {}

\* C22: asyn_fluidc returns converged exactly when its last sweep made no
\* reassignment, and the partition it then returns is a fixed point: every
\* vertex is assigned and its community is one of its candidates under the
\* returned densities.
C22_ConvergedIsFixedPoint ==
    /\ Returned => (~cont <=> moved = 0)
    /\ Converged =>
         \A v \in 1..LenG(G) :
            v \in DOMAIN communities /\ communities[v] \in CandidateSet(v)

\* a converged return after more than one sweep, with two vertices sharing a
\* community and more than one community
C22_Witness ==
    /\ Converged
    /\ iter_count >= 2
    /\ moved = 0
    /\ \E c \in DOMAIN density : Cardinality(Members(c)) >= 2
    /\ Cardinality(DOMAIN density) >= 2

\* the names of the first bundle for the classes of the list, as columns
FirstBundleColumns ==
    {get_feature_info(c, f).feature_name :
        <<c, f>> \in {x \in Range(feat_classes) \X
                            UNION {DOMAIN raw_features[1][sn] : sn \in DOMAIN raw_features[1]} :
                        x[2] \in DOMAIN raw_features[1][shortname(x[1])]}}

\* the names of a class of the list that only a later bundle holds
LaterOnlyColumns ==
    {get_feature_info(x[1], x[2]).feature_name :
        x \in {y \in Range(feat_classes) \X
                     UNION {DOMAIN raw_features[i][sn] :
                               <<i, sn>> \in {z \in (DOMAIN raw_features) \X {"CN", "SPM"} :
                                                z[2] \in DOMAIN raw_features[z[1]]}} :
                 /\ y[2] \notin DOMAIN raw_features[1][shortname(y[1])]
                 /\ \E i \in DOMAIN raw_features :
                      /\ shortname(y[1]) \in DOMAIN raw_features[i]
                      /\ y[2] \in DOMAIN raw_features[i][shortname(y[1])]}}

\* C24: the columns of the matrix gather_features builds are exactly the
\* feature names of the first graph's bundle for the classes of the list; a
\* name only a later bundle holds is no column; every column has one
\* FeatureInfo entry, under its own name.
C24_ColumnsFromFirstBundle ==
    pstate \in {"filter", "return", "returned"} =>
        /\ raw_features = <<>> => DOMAIN features.data = {}
        /\ raw_features # <<>> =>
             /\ DOMAIN features.data = FirstBundleColumns
             /\ LaterOnlyColumns \cap DOMAIN features.data = {}
        /\ DOMAIN features_info = DOMAIN features.data
        /\ \A col \in DOMAIN features.data : features_info[col].feature_name = col

\* gather_features has returned a matrix with a column, from two bundles of
\* which the second holds a name of a listed class that the first lacks
C24_Witness ==
    /\ pstate = "filter"
    /\ Len(raw_features) = 2
    /\ DOMAIN features.data # {}
    /\ LaterOnlyColumns # {}

\* the size of the largest of the returned groups
LargestSize(groups) ==
    LET i == CHOOSE i \in DOMAIN groups :
                 \A j \in DOMAIN groups : Cardinality(groups[i]) >= Cardinality(groups[j])
    IN Cardinality(groups[i])

\* the size of the second largest of the returned groups (two or more groups)
SecondLargestSize(groups) ==
    LET i == CHOOSE i \in DOMAIN groups :
                 \A j \in DOMAIN groups : Cardinality(groups[i]) >= Cardinality(groups[j])
        h == CHOOSE h \in DOMAIN groups \ {i} :
                 \A j \in DOMAIN groups \ {i} :
                     Cardinality(groups[h]) >= Cardinality(groups[j])
    IN Cardinality(groups[h])

\* C26: for every community count i, num_nodes_ratio_i is the size of the
\* largest community of the returned partition divided by the size of the
\* second largest.
C26_RatioOfTwoLargest ==
    (/\ fstate = At("loop")
     /\ pc = "done"
     /\ Returned
     /\ <<"num_nodes_ratio", fi - 1>> \in DOMAIN feature_list) =>
        feature_list[<<"num_nodes_ratio", fi - 1>>][1] * SecondLargestSize(result.groups)
            = LargestSize(result.groups) * feature_list[<<"num_nodes_ratio", fi - 1>>][2]

\* the names written when the try block runs to its end
SuccessNames ==
    DegStatNames \cup Range(DegFitNames) \cup MatrixStatNames \cup Range(FeatFitNames)
        \cup NodeMeanStatNames \cup Range(NodeFitNames) \cup NormStatNames
        \cup Range(NormFitNames)

\* the except branch has run
FellBack == "mean" \in DOMAIN node_feature_list /\ node_feature_list["mean"] = NaN

\* C25: NodeFeatures.feature_extraction stores the same names on every
\* graph: after the NaN fallback, wherever the exception came from, every
\* name the try block writes (norm_sum included) is present and NaN.
C25_SameNamesOnFallback ==
    nstate = "done" =>
        /\ DOMAIN node_feature_list = SuccessNames
        /\ FellBack =>
             \A nm \in SuccessNames \ (DegStatNames \cup Range(DegFitNames)) :
                 node_feature_list[nm] = NaN

\* every node carries a feature vector and the vectors have one length
AllCarryFeatures ==
    /\ \A i \in 1..NG.n : i \in DOMAIN NG.feat
    /\ \A i \in 1..NG.n : Len(NG.feat[i]) = Len(NG.feat[1])

\* C27: on a graph whose N nodes all carry a feature vector the matrix has N
\* rows, the list of per-node means has N entries, and the i-th normalised
\* value is the mean of node i minus the degree of node i.
C27_OneRowPerNodeAligned ==
    (nstate = "norm_fit" /\ AllCarryFeatures) =>
        /\ Len(node_matrix) = NG.n
        /\ Len(mean_node_feat_list) = NG.n
        /\ \A i \in 1..NG.n :
             LET expected == FracSub(RowMean(NG.feat[i]), IntVal(Len(NG.adj[i])))
             IN mean_node_feat_norm[i][1] * expected[2]
                    = expected[1] * mean_node_feat_norm[i][2]

\* C23: within one pass over a graph in one process, the body of each
\* memoized spectral function runs at most once, however many features call
\* it, and every call after the first of the same function is served with
\* the cached entry.
C23_DecompositionComputedOnce ==
    [][/\ \A f \in DOMAIN computed' : computed'[f] <= 1
       /\ (/\ sp_req \in 1..NumRequests
           /\ \E r \in 1..(sp_req - 1) : Request(r).fn = Request(sp_req).fn)
            => (/\ computed' = computed
                /\ lru' = lru
                /\ <<Request(sp_req).fn, sp_graphs[sp_task].id>> \in lru)]_vars

\* a pass has made all its calls: the adjacency spectrum was asked for 91
\* times and computed once, the two others once each
C23_Witness ==
    /\ sp_req = NumRequests + 1
    /\ computed = [f \in SpmFns |-> 1]
    /\ Cardinality({r \in 1..NumRequests : Request(r).fn = "eval_spectrum_adj"}) = 91

----------------------------------------------------------------------------
\* Further properties of extract.

\* no graph has been handed to a worker and nothing has been computed
NoBatchWork ==
    /\ mapper = "none"
    /\ next_task = 1
    /\ \A w \in DOMAIN wk : wk[w] = IdleWorker
    /\ pending = EmptyDict
    /\ completed = <<>>
    /\ raw_features = <<>>

\* C13: when the run on the canary graph raises for a class selected for the
\* mode, get_list_feature_classes fails (no list is returned, the error
\* leaves extract) and no per-graph work is done; when it raises for none,
\* get_list_feature_classes returns the list.
C13_CanaryFailureIsFatal ==
    pstate # "boot" =>
        IF \E c \in Range(SelectClasses(glob_order, mode)) : c \in canary_raises
        THEN /\ pstate = "raised"
             /\ ret.kind = "error"
             /\ ret.in = "get_list_feature_classes"
             /\ feat_classes = <<>>
             /\ NoBatchWork
        ELSE /\ ~(pstate = "raised" /\ ret.in = "get_list_feature_classes")
             /\ feat_classes = SelectClasses(glob_order, mode)

C13_Witness ==
    /\ pstate = "raised"
    /\ ret.in = "get_list_feature_classes"
    /\ mode = "medium"
    /\ "Spectrum" \in canary_raises
    /\ Len(graphs) >= 1

\* get_list_feature_classes has returned its list
ListReturned == pstate \notin {"boot", "raised"} \/ (pstate = "raised" /\ ret.in # "get_list_feature_classes")

\* the classes get_list_feature_classes selects for mode m
ActiveSet(m) == Range(SelectClasses(glob_order, m))

\* C14: a discovered class is in the list get_list_feature_classes returns
\* exactly when the mode is "all" or one of the class's declared modes
\* (NodeCliqueNumber: fast, medium, slow; Spectrum: medium, slow), each class
\* at most once; so the selection for fast is within that for medium, within
\* that for slow, within that for all.
C14_ActiveIffModeDeclared ==
    /\ ListReturned =>
         /\ \A c \in ClassNames :
              c \in Range(feat_classes) <=> (mode = "all" \/ mode \in modes(c))
         /\ \A i, j \in DOMAIN feat_classes : feat_classes[i] = feat_classes[j] => i = j
         /\ mode = "fast" => Range(feat_classes) = {"NodeCliqueNumber"}
         /\ mode \in {"medium", "slow", "all"} => Range(feat_classes) = ClassNames
    /\ ActiveSet("fast") \subseteq ActiveSet("medium")
    /\ ActiveSet("medium") \subseteq ActiveSet("slow")
    /\ ActiveSet("slow") \subseteq ActiveSet("all")

C14_Witness ==
    /\ pstate = "compute"
    /\ mode = "all"
    /\ feat_classes = <<"Spectrum", "NodeCliqueNumber">>

\* the pass over the i-th graph ends with an error
PassRaises(i) == feature_extraction(graphs[i], feat_classes, EmptyDict).raised

\* C15: the cache of the spectrum functions holds, in every process, no
\* entry of a graph other than the one whose pass is running there: when a
\* graph's pass is over its entry is gone, and the next graph's pass starts
\* without the entries of earlier graphs.  Stated for the graphs whose pass
\* ends normally.
C15_CacheScopedToGraphPass ==
    \A w \in DOMAIN cache :
        \A i \in cache[w] \cap DOMAIN graphs : wk[w].task = i \/ PassRaises(i)

\* C16: for the same graphs and the same mode, compute_all_features followed
\* by gather_features gives with a pool of N > 1 workers what it gives with
\* one worker: the same columns, the same rows in the same order, the same
\* cells (and an error in the same place when the run with one worker ended
\* with one).
C16_WorkerCountDoesNotChangeMatrix ==
    (ref # NoRef /\ pstate \in {"filter", "raised"}) =>
        IF pstate = "raised"
        THEN ref.kind = "error" /\ ref.in = ret.in
        ELSE /\ ref.kind = "return"
             /\ features = ref.features
             /\ features_info = ref.features_info

C16_Witness ==
    /\ ref # NoRef
    /\ pstate = "filter"
    /\ n_workers = 2
    /\ completed = <<2, 1>>
    /\ features.index = 2
    /\ features = ref.features
    /\ \E c \in DOMAIN features.data : features.data[c][1] # features.data[c][2]

----------------------------------------------------------------------------
\* Properties of AsynfluidCommunities.feature_extraction.

\* C17: for a connected undirected graph, every call the feature module
\* makes has k = min(i, |G|), the error "k cannot be bigger than the number
\* of nodes." is never raised, and feature_extraction completes with all the
\* features of every i in 2..9 stored (graphs of 1 or 2 nodes included).
C17_SmallGraphsComplete ==
    (~is_directed /\ is_connected(G)) =>
        /\ fstate.at = "call" =>
             k = IntK(IF fi < LenG(G) THEN fi ELSE LenG(G))
        /\ fstate.at # "raised"
        /\ fstate.at = "done" => DOMAIN feature_list = DOMAIN NaNFeatures

====
